---- MODULE Spec2Model ----
(***************************************************************************)
(* Legal Services Portal: the DocumentUpload view (route /upload/:id),     *)
(* its product lookup, file selection and validation, and the upload       *)
(* submission with its simulated progress timer (Spec, FairSpec); the api  *)
(* lookup getServiceById as a function of its argument (ApiSpec); and the  *)
(* data fetching of the ProductList and ProductDetails views, one instance *)
(* of each from its mount on (ViewsSpec, FairViewsSpec).                   *)
(*                                                                         *)
(* One action per handler / callback of the component.  React batches the  *)
(* state setters called inside one handler and applies them in call order, *)
(* so a handler is one atomic step whose result is the last write to each  *)
(* piece of state.                                                         *)
(*                                                                         *)
(* The two api calls are suspension points.  getServiceById is modelled    *)
(* from its code (fixed delay, lookup in legalServices).  The upload call  *)
(* is awaited inside try/catch: the model lets the awaited promise settle  *)
(* either way, so that the catch branch of handleSubmit is exercised.      *)
(***************************************************************************)
EXTENDS Integers, Sequences, FiniteSets, TLC

VARIABLES
  location,        \* router location: [path, id, search]
  id,              \* useParams().id of the mounted view
  selectedFiles,   \* Array.from(event.target.files) of the latest change event
  files,           \* useState([])    selected files
  uploading,       \* useState(false)
  uploadProgress,  \* useState(0)
  error,           \* useState(null)
  product,         \* useState(null)
  lookups,         \* getServiceById calls in flight, oldest first
  uploadCall,      \* state of the latest uploadDocuments promise
  formData,        \* payload handed to the latest uploadDocuments call
  interval,        \* handle returned by the latest setInterval
  intervals,       \* handles of the intervals that are still active
  timeout,         \* TRUE while the navigation setTimeout is pending
  arg,             \* ApiSpec: the id handed to api.getServiceById
  result,          \* ApiSpec: the promise that call returned, once settled
  plProducts,      \* ProductList: useState([])   products
  plLoading,       \* ProductList: useState(true) loading
  plError,         \* ProductList: useState(null) error
  plCall,          \* ProductList: state of its api.getServices promise
  pdId,            \* ProductDetails: useParams().id
  pdProduct,       \* ProductDetails: useState(null) product
  pdLoading,       \* ProductDetails: useState(true) loading
  pdError,         \* ProductDetails: useState(null) error
  pdLookups        \* ProductDetails: getServiceById calls in flight, oldest first

uploadVars == <<location, id, selectedFiles, files, uploading, uploadProgress, error,
                product, lookups, uploadCall, formData, interval, intervals, timeout>>

apiVars == <<arg, result>>

listVars == <<plProducts, plLoading, plError, plCall>>

detailsVars == <<pdId, pdProduct, pdLoading, pdError, pdLookups>>

viewVars == <<listVars, detailsVars>>

vars == <<uploadVars, apiVars, viewVars>>

----------------------------------------------------------------------------
(* Bounds of the model *)

MaxBatch == 3        \* files in one selection event
MaxLookups == 2      \* lookup calls in flight at once
MaxIntervals == 2    \* interval timers alive at once
MaxIdLen == 3        \* characters of an id handed to getServiceById

----------------------------------------------------------------------------
(* Values *)

null == "null"               \* the null held by `error`
undefined == "undefined"     \* a missing err.message
noProduct == [id |-> 0, name |-> "null", price |-> 0]   \* the null held by `product`
noFormData == [documents |-> <<>>, productId |-> <<>>]

RejectedMsg == "Some files were rejected. Please ensure all files are PDF, JPEG, or PNG and under 5MB."
LookupFailedMsg == "Failed to load product details"
UploadFailedMsg == "Failed to upload documents"
NotFoundMsg == "Service not found"

\* The mock data of the api service (price in cents).
legalServices ==
  << [id |-> 1, name |-> "Contract Review", price |-> 29999],
     [id |-> 2, name |-> "Legal Consultation", price |-> 19999],
     [id |-> 3, name |-> "Document Preparation", price |-> 39999] >>

\* Route parameters are strings, kept as sequences of characters.
RouteIds == { <<"1">>, <<"9", "9", "9">> }

\* Candidate files the file picker can hand over.
MiB == 1024 * 1024
aPdf == [name |-> "a.pdf", type |-> "application/pdf", size |-> 2 * MiB]
bExe == [name |-> "b.exe", type |-> "application/x-msdownload", size |-> 1 * MiB]
cPng == [name |-> "c.png", type |-> "image/png", size |-> 6 * MiB]
dJpg == [name |-> "d.jpg", type |-> "image/jpeg", size |-> 5 * MiB]
ePng == [name |-> "e.png", type |-> "image/png", size |-> 5 * MiB + 1]
CandidateFiles == {aPdf, bExe, cPng, dJpg, ePng}

Range(s) == { s[i] : i \in DOMAIN s }

\* The order in which the file picker lists them.
Listing == <<aPdf, bExe, cPng, dJpg, ePng>>

\* event.target.files: the chosen files, in the picker's order.
Batches ==
  { s \in UNION { [1..n -> CandidateFiles] : n \in 0..MaxBatch } :
      \E at \in [DOMAIN s -> DOMAIN Listing] :
         /\ \A i \in DOMAIN s : s[i] = Listing[at[i]]
         /\ \A i, j \in DOMAIN s : i < j => at[i] < at[j] }

\* Messages a rejected upload can carry.
ErrMessages == { "Network Error", "", undefined }

----------------------------------------------------------------------------
(* api service *)

DigitVal == [c \in {"0", "1", "2", "3", "4", "5", "6", "7", "8", "9"} |->
               CASE c = "0" -> 0 [] c = "1" -> 1 [] c = "2" -> 2 [] c = "3" -> 3
                 [] c = "4" -> 4 [] c = "5" -> 5 [] c = "6" -> 6 [] c = "7" -> 7
                 [] c = "8" -> 8 [] c = "9" -> 9]

\* A JavaScript number: an integer, or NaN.
NaN == [isNaN |-> TRUE, n |-> 0]
Num(k) == [isNaN |-> FALSE, n |-> k]

RECURSIVE leadingDigits(_, _, _)
leadingDigits(s, i, acc) ==
  IF i > Len(s) \/ s[i] \notin DOMAIN DigitVal
    THEN acc
    ELSE leadingDigits(s, i + 1, acc * 10 + DigitVal[s[i]])

\* The index of the first character of s at or after i that is not a blank.
RECURSIVE skipBlanks(_, _)
skipBlanks(s, i) == IF i <= Len(s) /\ s[i] = " " THEN skipBlanks(s, i + 1) ELSE i

\* parseInt(s), radix 10: leading blanks are skipped, a sign is read, then the
\* leading decimal digits; NaN when there are none.  (No id of the model
\* starts with 0x, which parseInt would read as hexadecimal.)
parseInt(s) ==
  LET b == skipBlanks(s, 1)
      signed == b <= Len(s) /\ s[b] \in {"-", "+"}
      d == IF signed THEN b + 1 ELSE b
  IN IF d > Len(s) \/ s[d] \notin DOMAIN DigitVal
       THEN NaN
       ELSE LET n == leadingDigits(s, d, 0)
            IN Num(IF signed /\ s[b] = "-" THEN 0 - n ELSE n)

\* String(n) of an integer: its decimal digits, with a sign when negative.
DigitChar == [k \in 0..9 |-> CHOOSE c \in DOMAIN DigitVal : DigitVal[c] = k]

RECURSIVE digitsOf(_)
digitsOf(n) == IF n < 10 THEN <<DigitChar[n]>> ELSE digitsOf(n \div 10) \o <<DigitChar[n % 10]>>

\* The string parseInt works on: a string as it is, a number through String(n).
String(v) ==
  IF v.isString THEN v.chars
  ELSE IF v.n < 0 THEN <<"-">> \o digitsOf(0 - v.n) ELSE digitsOf(v.n)

\* s.id === x for a number x (NaN equals nothing).
StrictEq(k, x) == ~x.isNaN /\ k = x.n

find_ZeroBasedIndex(x) ==
  IF ~x.isNaN /\ (x.n + 1) \in DOMAIN legalServices
    THEN legalServices[x.n + 1]
    ELSE noProduct

\* legalServices.find(pred): the first match, noProduct for undefined.
find(x) ==
  IF \E i \in DOMAIN legalServices : StrictEq(legalServices[i].id, x)
    THEN LET i == CHOOSE i \in DOMAIN legalServices :
                    /\ StrictEq(legalServices[i].id, x)
                    /\ \A j \in 1..(i - 1) : ~StrictEq(legalServices[j].id, x)
         IN legalServices[i]
    ELSE noProduct

\* api.getServiceById: the settled promise, resolved (ok) or rejected.
getServiceById(rid) ==
  LET service == find(parseInt(rid))
  IN IF service = noProduct
       THEN [ok |-> FALSE, service |-> noProduct, message |-> NotFoundMsg]
       ELSE [ok |-> TRUE, service |-> service, message |-> null]

\* The ids a caller can hand over: strings and integers.
StrId(s) == [isString |-> TRUE, chars |-> s, n |-> 0]
IntId(k) == [isString |-> FALSE, chars |-> <<>>, n |-> k]

IdChars == {"0", "1", "2", "3", "9", "a", " ", "-"}

IdArgs ==
  { StrId(s) : s \in UNION { [1..n -> IdChars] : n \in 0..MaxIdLen } }
    \cup { IntId(k) : k \in {-1, 0, 1, 2, 3, 4, 10, 999} }

noArg == StrId(<<>>)
noResult == [ok |-> FALSE, service |-> noProduct, message |-> null]

\* Neither ProductList nor ProductDetails is mounted.
viewsUnmounted ==
  /\ plProducts = <<>>
  /\ plLoading = FALSE
  /\ plError = null
  /\ plCall = "none"
  /\ pdId = <<>>
  /\ pdProduct = noProduct
  /\ pdLoading = FALSE
  /\ pdError = null
  /\ pdLookups = <<>>

----------------------------------------------------------------------------
(* DocumentUpload *)

mounted == location.path = "/upload/"

Init ==
  /\ id \in RouteIds
  /\ location = [path |-> "/upload/", id |-> id, search |-> ""]
  /\ selectedFiles = <<>>
  /\ files = <<>>
  /\ uploading = FALSE
  /\ uploadProgress = 0
  /\ error = null
  /\ product = noProduct
  /\ lookups = <<id>>
  /\ uploadCall = "none"
  /\ formData = noFormData
  /\ interval = 0
  /\ intervals = {}
  /\ timeout = FALSE
  /\ arg = noArg
  /\ result = noResult
  /\ viewsUnmounted

fetchProductDetails_Retries ==
  /\ mounted
  /\ Len(lookups) > 0
  /\ LET response == getServiceById(Head(lookups))
     IN IF response.ok
          THEN /\ product' = response.service
               /\ error' = error
               /\ lookups' = Tail(lookups)
          ELSE /\ error' = LookupFailedMsg
               /\ product' = product
               /\ lookups' = Append(Tail(lookups), Head(lookups))
  /\ UNCHANGED <<apiVars, viewVars,
                 location, id, selectedFiles, files, uploading, uploadProgress, uploadCall,
                 formData, interval, intervals, timeout>>

\* The effect of [id]: one lookup per value of the route id.  Every lookup
\* waits the same delay(500), so the calls settle in the order they were made.
\* setProduct(response) on resolve, setError(...) on reject.
fetchProductDetails ==
  /\ mounted
  /\ Len(lookups) > 0
  /\ LET response == getServiceById(Head(lookups))
     IN IF response.ok
          THEN /\ product' = response.service
               /\ error' = error
          ELSE /\ error' = LookupFailedMsg
               /\ product' = product
  /\ lookups' = Tail(lookups)
  /\ UNCHANGED <<apiVars, viewVars,
                 location, id, selectedFiles, files, uploading, uploadProgress, uploadCall,
                 formData, interval, intervals, timeout>>

\* The route id changes while the view stays mounted: the effect runs again.
RouteChange(newId) ==
  /\ mounted
  /\ newId # id
  /\ Len(lookups) < MaxLookups
  /\ id' = newId
  /\ location' = [location EXCEPT !.id = newId]
  /\ lookups' = Append(lookups, newId)
  /\ UNCHANGED <<apiVars, viewVars,
                 selectedFiles, files, uploading, uploadProgress, error, product, uploadCall,
                 formData, interval, intervals, timeout>>

isValidType_AnyType(file) == file.type # ""

isValidType(file) == file.type \in {"application/pdf", "image/jpeg", "image/png"}

isValidSize_Strict(file) == file.size < 5 * 1024 * 1024

isValidSize(file) == file.size <= 5 * 1024 * 1024

\* selectedFiles.filter(...): the kept files, in order.
RECURSIVE filter(_)
filter(fileList) ==
  IF fileList = <<>>
    THEN <<>>
    ELSE LET file == Head(fileList)
             rest == filter(Tail(fileList))
         IN IF isValidType(file) /\ isValidSize(file) THEN <<file>> \o rest ELSE rest

errorAfterFileChange_KeepsPrevious(fileList, validFiles) ==
  IF Len(validFiles) # Len(fileList) THEN RejectedMsg ELSE error

\* The writes of handleFileChange to `error`, in call order; the last one stays.
errorAfterFileChange(fileList, validFiles) ==
  LET writes == (IF Len(validFiles) # Len(fileList) THEN <<RejectedMsg>> ELSE <<>>)
                  \o <<null>>
  IN writes[Len(writes)]

filesAfterFileChange_Appends(prev, validFiles) == prev \o validFiles

\* setFiles(validFiles): the new value of `files`.
filesAfterFileChange(prev, validFiles) == validFiles

formRendered_WithoutProduct == mounted

\* The form is rendered once product is set.
formRendered == mounted /\ product # noProduct

\* if (!product) return the spinner.
spinnerRendered == mounted /\ product = noProduct

\* {error && <div>{error}</div>}, inside the main render.
errorRendered == formRendered /\ error \notin {null, ""}

fileInputDisabled_Never == FALSE

\* disabled={uploading} on the file input.
fileInputDisabled == uploading

handleFileChange(fileList) ==
  /\ formRendered
  /\ ~fileInputDisabled
  /\ selectedFiles' = fileList
  /\ LET validFiles == filter(fileList)
     IN /\ files' = filesAfterFileChange(files, validFiles)
        /\ error' = errorAfterFileChange(fileList, validFiles)
  /\ UNCHANGED <<apiVars, viewVars,
                 location, id, uploading, uploadProgress, product, lookups,
                 uploadCall, formData, interval, intervals, timeout>>

submitDisabled_IgnoresUploading == Len(files) = 0

\* disabled={files.length === 0 || uploading}
submitDisabled == Len(files) = 0 \/ uploading

\* A handle no live interval holds.
freshHandle == CHOOSE h \in 1..(MaxIntervals + 1) : h \notin intervals

handleSubmit_SendsRawSelection ==
  /\ formRendered
  /\ ~submitDisabled
  /\ Cardinality(intervals) < MaxIntervals
  /\ uploading' = TRUE
  /\ error' = null
  /\ formData' = [documents |-> selectedFiles, productId |-> id]
  /\ interval' = freshHandle
  /\ intervals' = intervals \cup {freshHandle}
  /\ uploadCall' = "pending"
  /\ UNCHANGED <<apiVars, viewVars,
                 location, id, selectedFiles, files, uploadProgress, product, lookups, timeout>>

handleSubmit_ResetsProgress ==
  /\ formRendered
  /\ ~submitDisabled
  /\ Cardinality(intervals) < MaxIntervals
  /\ uploading' = TRUE
  /\ error' = null
  /\ uploadProgress' = 0
  /\ formData' = [documents |-> files, productId |-> id]
  /\ interval' = freshHandle
  /\ intervals' = intervals \cup {freshHandle}
  /\ uploadCall' = "pending"
  /\ UNCHANGED <<apiVars, viewVars,
                 location, id, selectedFiles, files, product, lookups, timeout>>

\* handleSubmit up to the await of api.uploadDocuments.
handleSubmit ==
  /\ formRendered
  /\ ~submitDisabled
  /\ Cardinality(intervals) < MaxIntervals
  /\ uploading' = TRUE
  /\ error' = null
  /\ formData' = [documents |-> files, productId |-> id]
  /\ interval' = freshHandle
  /\ intervals' = intervals \cup {freshHandle}
  /\ uploadCall' = "pending"
  /\ UNCHANGED <<apiVars, viewVars,
                 location, id, selectedFiles, files, uploadProgress, product, lookups, timeout>>

progressUpdater_OffByOne(prev) == IF prev > 90 THEN prev ELSE prev + 10

\* The updater of the interval callback, and whether it clears its interval.
progressUpdater(prev) == IF prev >= 90 THEN prev ELSE prev + 10
progressClears(prev) == prev >= 90

\* One firing of the interval with handle h.
progressTick(h) ==
  /\ mounted
  /\ h \in intervals
  /\ uploadProgress' = progressUpdater(uploadProgress)
  /\ intervals' = IF progressClears(uploadProgress) THEN intervals \ {h} ELSE intervals
  /\ UNCHANGED <<apiVars, viewVars,
                 location, id, selectedFiles, files, uploading, error, product, lookups,
                 uploadCall, formData, interval, timeout>>

uploadResolved_ClearsFiles ==
  /\ mounted
  /\ uploadCall = "pending"
  /\ uploadProgress' = 100
  /\ files' = <<>>
  /\ intervals' = intervals \ {interval}
  /\ timeout' = TRUE
  /\ uploadCall' = "resolved"
  /\ UNCHANGED <<apiVars, viewVars,
                 location, id, selectedFiles, uploading, error, product, lookups,
                 formData, interval>>

uploadResolved_ResetsUploading ==
  /\ mounted
  /\ uploadCall = "pending"
  /\ uploadProgress' = 100
  /\ uploading' = FALSE
  /\ intervals' = intervals \ {interval}
  /\ timeout' = TRUE
  /\ uploadCall' = "resolved"
  /\ UNCHANGED <<apiVars, viewVars,
                 location, id, selectedFiles, files, error, product, lookups,
                 formData, interval>>

uploadResolved_ProgressLeftAlone ==
  /\ mounted
  /\ uploadCall = "pending"
  /\ intervals' = intervals \ {interval}
  /\ timeout' = TRUE
  /\ uploadCall' = "resolved"
  /\ UNCHANGED <<apiVars, viewVars,
                 location, id, selectedFiles, files, uploading, uploadProgress, error,
                 product, lookups, formData, interval>>

\* handleSubmit after the await resolved.
uploadResolved ==
  /\ mounted
  /\ uploadCall = "pending"
  /\ uploadProgress' = 100
  /\ intervals' = intervals \ {interval}
  /\ timeout' = TRUE
  /\ uploadCall' = "resolved"
  /\ UNCHANGED <<apiVars, viewVars,
                 location, id, selectedFiles, files, uploading, error, product, lookups,
                 formData, interval>>

Or_FirstOperand(a, b) == a

\* a || b
Or(a, b) == IF a \in {"", undefined, null} THEN b ELSE a

uploadRejected_StaysUploading(message) ==
  /\ mounted
  /\ uploadCall = "pending"
  /\ error' = Or(message, UploadFailedMsg)
  /\ uploadCall' = "rejected"
  /\ formData' = noFormData
  /\ UNCHANGED <<apiVars, viewVars,
                 location, id, selectedFiles, files, uploading, uploadProgress, product,
                 lookups, interval, intervals, timeout>>

\* handleSubmit after the await rejected: the catch block.
uploadRejected(message) ==
  /\ mounted
  /\ uploadCall = "pending"
  /\ error' = Or(message, UploadFailedMsg)
  /\ uploading' = FALSE
  /\ uploadCall' = "rejected"
  /\ formData' = noFormData
  /\ UNCHANGED <<apiVars, viewVars,
                 location, id, selectedFiles, files, uploadProgress, product, lookups,
                 interval, intervals, timeout>>

\* The setTimeout callback: navigate(`/product/${id}?upload=success`).
navigate ==
  /\ timeout
  /\ timeout' = FALSE
  /\ location' = [path |-> "/product/", id |-> formData.productId,
                  search |-> "?upload=success"]
  /\ UNCHANGED <<apiVars, viewVars,
                 id, selectedFiles, files, uploading, uploadProgress, error, product, lookups,
                 uploadCall, formData, interval, intervals>>

Next ==
  \/ fetchProductDetails
  \/ \E newId \in RouteIds : RouteChange(newId)
  \/ \E fileList \in Batches : handleFileChange(fileList)
  \/ handleSubmit
  \/ \E h \in intervals : progressTick(h)
  \/ uploadResolved
  \/ \E message \in ErrMessages : uploadRejected(message)
  \/ navigate

Spec == Init /\ [][Next]_vars

\* The timers of the event loop fire: a pending timeout is eventually run.
FairSpec == Spec /\ WF_vars(navigate)

----------------------------------------------------------------------------
(* api.getServiceById on its own *)

\* No view is mounted on /upload/:id.
uploadUnmounted ==
  /\ location = [path |-> "/", id |-> <<>>, search |-> ""]
  /\ id = <<>>
  /\ selectedFiles = <<>>
  /\ files = <<>>
  /\ uploading = FALSE
  /\ uploadProgress = 0
  /\ error = null
  /\ product = noProduct
  /\ lookups = <<>>
  /\ uploadCall = "none"
  /\ formData = noFormData
  /\ interval = 0
  /\ intervals = {}
  /\ timeout = FALSE

ApiInit ==
  /\ uploadUnmounted
  /\ arg \in IdArgs
  /\ result = noResult
  /\ viewsUnmounted

\* The call api.getServiceById(arg), from the call to the settled promise.
callGetServiceById ==
  /\ result = noResult
  /\ result' = getServiceById(String(arg))
  /\ UNCHANGED <<arg, uploadVars, viewVars>>

ApiNext == callGetServiceById

ApiSpec == ApiInit /\ [][ApiNext]_vars

----------------------------------------------------------------------------
(* ProductList and ProductDetails *)

\* Route ids of /product/:id.
DetailsRouteIds == RouteIds \cup { <<"2">> }

ViewsInit ==
  /\ uploadUnmounted
  /\ arg = noArg
  /\ result = noResult
  /\ plProducts = <<>>
  /\ plLoading = TRUE
  /\ plError = null
  /\ plCall = "pending"
  /\ pdId \in DetailsRouteIds
  /\ pdProduct = noProduct
  /\ pdLoading = TRUE
  /\ pdError = null
  /\ pdLookups = <<pdId>>

\* ProductList fetchProducts after api.getServices resolved.
fetchProductsResolved ==
  /\ plCall = "pending"
  /\ plProducts' = legalServices
  /\ plLoading' = FALSE
  /\ plCall' = "resolved"
  /\ UNCHANGED <<plError, detailsVars, uploadVars, apiVars>>

\* ProductList fetchProducts after api.getServices rejected: the catch block.
fetchProductsRejected(message) ==
  /\ plCall = "pending"
  /\ plError' = message
  /\ plLoading' = FALSE
  /\ plCall' = "rejected"
  /\ UNCHANGED <<plProducts, detailsVars, uploadVars, apiVars>>

detailsFetch_CatchLeavesLoading ==
  /\ Len(pdLookups) > 0
  /\ LET response == getServiceById(Head(pdLookups))
     IN IF response.ok
          THEN /\ pdProduct' = response.service
               /\ pdLoading' = FALSE
               /\ pdError' = pdError
          ELSE /\ pdError' = response.message
               /\ pdLoading' = pdLoading
               /\ pdProduct' = pdProduct
  /\ pdLookups' = Tail(pdLookups)
  /\ UNCHANGED <<pdId, listVars, uploadVars, apiVars>>

\* ProductDetails fetchProductDetails once the oldest lookup has settled.
detailsFetch ==
  /\ Len(pdLookups) > 0
  /\ LET response == getServiceById(Head(pdLookups))
     IN IF response.ok
          THEN /\ pdProduct' = response.service
               /\ pdLoading' = FALSE
               /\ pdError' = pdError
          ELSE /\ pdError' = response.message
               /\ pdLoading' = FALSE
               /\ pdProduct' = pdProduct
  /\ pdLookups' = Tail(pdLookups)
  /\ UNCHANGED <<pdId, listVars, uploadVars, apiVars>>

\* The route id of ProductDetails changes while it stays mounted.
detailsRouteChange(newId) ==
  /\ newId # pdId
  /\ Len(pdLookups) < MaxLookups
  /\ pdId' = newId
  /\ pdLookups' = Append(pdLookups, newId)
  /\ UNCHANGED <<pdProduct, pdLoading, pdError, listVars, uploadVars, apiVars>>

ViewsNext ==
  \/ fetchProductsResolved
  \/ \E message \in ErrMessages : fetchProductsRejected(message)
  \/ detailsFetch
  \/ \E newId \in DetailsRouteIds : detailsRouteChange(newId)

ViewsSpec == ViewsInit /\ [][ViewsNext]_vars

\* Every api call settles: the lookups of both views eventually complete.
FairViewsSpec ==
  /\ ViewsSpec
  /\ WF_vars(fetchProductsResolved \/ \E message \in ErrMessages : fetchProductsRejected(message))
  /\ WF_vars(detailsFetch)

----------------------------------------------------------------------------
(* Claims *)

\* C1: every file of the Selected File Set has an allowed media type and a
\* size of at most 5,242,880 bytes, in every reachable state of the view.
C1_FilesAreValid ==
  \A i \in DOMAIN files :
    /\ files[i].type \in {"application/pdf", "image/jpeg", "image/png"}
    /\ files[i].size <= 5242880

C1_Witness ==
  /\ Len(files) = 2
  /\ uploadCall = "rejected"
  /\ uploadProgress >= 10

\* C2: handleFileChange(B) leaves exactly the files of B, in B's order, whose
\* media type is pdf/jpeg/png and whose size is at most 5,242,880 bytes.
C2_SelectionIsExactFilter ==
  files = SelectSeq(selectedFiles, LAMBDA f :
            /\ f.type \in {"application/pdf", "image/jpeg", "image/png"}
            /\ f.size <= 5242880)

C2_Witness == selectedFiles = <<aPdf, bExe, cPng>> /\ files = <<aPdf>>

\* C3: a selection that drops a file ends with the aggregate warning as the
\* view's error message.
C3_WarningAfterDrop ==
  [][(selectedFiles' # selectedFiles /\ Len(files') # Len(selectedFiles'))
       => error' = RejectedMsg]_vars

\* C4: an upload call starts only with a non-empty Selected File Set and no
\* submission in flight; with `files` empty or `uploading` true the submit
\* action cannot fire.
C4_SubmitGuarded ==
  /\ [][(intervals' \ intervals # {})
         => (Len(files) > 0 /\ ~uploading /\ uploadCall # "pending")]_vars
  /\ []((Len(files) = 0 \/ uploading) => ~ENABLED handleSubmit)

C4_Witness == uploadCall = "pending" /\ uploading /\ Len(files) > 0

\* C5: once the upload call has resolved or rejected, the interval started
\* by that submission is no longer active.
C5_IntervalClearedOnExit ==
  uploadCall \in {"resolved", "rejected"} => interval \notin intervals

\* C6: a rejected upload leaves uploading false, the submitted files still
\* selected and the submit action enabled.
C6_RejectedIsResubmittable ==
  [][(uploadCall = "pending" /\ uploadCall' = "rejected")
       => /\ ~uploading'
          /\ files' = formData.documents
          /\ Len(files') > 0
          /\ formRendered'
          /\ ~submitDisabled']_vars

C6_Witness ==
  /\ uploadCall = "rejected"
  /\ ~uploading
  /\ files = <<aPdf>>
  /\ ~submitDisabled

\* C7: after a rejected upload the error is the rejection's message when it
\* is a non-empty string and the generic fallback otherwise, never null.
C7_RejectedErrorMessage ==
  [][\A message \in ErrMessages :
       uploadRejected(message)
         => /\ error' = (IF message \notin {"", undefined} THEN message
                         ELSE "Failed to upload documents")
            /\ error' # null]_vars

C7_Witness == uploadCall = "rejected" /\ error = "Failed to upload documents"

\* C8: a resolved upload shows 100 until the navigation fires, the navigation
\* follows every resolved upload, and it fires only after a resolved upload.
C8_SuccessThenNavigation ==
  /\ []((uploadCall = "resolved" /\ mounted) => uploadProgress = 100)
  /\ ((uploadCall = "resolved") ~>
        (location = [path |-> "/product/", id |-> formData.productId,
                     search |-> "?upload=success"]))
  /\ [](location.path = "/product/" =>
        (uploadCall = "resolved" /\ location.search = "?upload=success"))

C8_Witness ==
  /\ location = [path |-> "/product/", id |-> <<"1">>, search |-> "?upload=success"]
  /\ uploadCall = "resolved"
  /\ uploadProgress = 100

\* C9: while the upload call is outstanding the progress indicator is at
\* most 90, also on a resubmission after a failed upload.
C9_ProgressCappedWhilePending == uploadCall = "pending" => uploadProgress <= 90

C9_Witness ==
  /\ uploadCall = "pending"
  /\ uploadProgress = 90
  /\ Cardinality(intervals) = 2

\* C10: the Selected File Set holds no file that is not in the latest batch.
C10_SelectionReplaces ==
  /\ \A i \in DOMAIN files : files[i] \in Range(selectedFiles)
  /\ Len(files) <= Len(selectedFiles)

C10_Witness ==
  /\ uploadCall = "rejected"
  /\ selectedFiles = <<bExe>>
  /\ files = <<>>

\* C11: getServiceById(id) returns the Service whose id is the integer the
\* identifier coerces to, or fails with 'Service not found' when there is none;
\* 1 and "1" give Contract Review at 299.99, 999 fails.
C11_LookupByCoercedId ==
  result # noResult =>
    LET n == parseInt(String(arg))
        matches == { i \in DOMAIN legalServices : ~n.isNaN /\ legalServices[i].id = n.n }
    IN /\ result.ok <=> matches # {}
       /\ result.ok => /\ \E i \in matches : result.service = legalServices[i]
                       /\ ~n.isNaN /\ result.service.id = n.n
       /\ ~result.ok => result.message = "Service not found"
       /\ arg \in {IntId(1), StrId(<<"1">>)} =>
            /\ result.ok
            /\ result.service.id = 1
            /\ result.service.name = "Contract Review"
            /\ result.service.price = 29999
       /\ arg \in {IntId(999), StrId(<<"9", "9", "9">>)} => ~result.ok

C11_Witness ==
  /\ arg = StrId(<<" ", "1", "a">>)
  /\ result.ok
  /\ result.service.name = "Contract Review"

\* C12: when the lookup of a view fails, the view shows an error message and
\* does not render the content that depends on the looked-up data.  Stated
\* for the DocumentUpload view.
C12_LookupFailureShown ==
  [][(mounted /\ Len(lookups) > 0 /\ lookups' = Tail(lookups)
        /\ ~getServiceById(Head(lookups)).ok)
       => (errorRendered' /\ ~formRendered')]_vars

\* C13: a selection happens only once a lookup has succeeded, a submission
\* only with a non-empty valid set left by a selection, and the navigation
\* away only after an upload has resolved.
C13_StepsInOrder ==
  /\ [][(selectedFiles' # selectedFiles \/ files' # files) => product # noProduct]_vars
  /\ [][(intervals' \ intervals # {})
         => (product # noProduct /\ selectedFiles # <<>> /\ files # <<>>)]_vars
  /\ [][(location'.path # location.path)
         => (uploadCall = "resolved" /\ formData.documents # <<>>)]_vars

C13_Witness ==
  /\ location.path = "/product/"
  /\ product # noProduct
  /\ selectedFiles = <<aPdf, bExe>>
  /\ formData.documents = <<aPdf>>

\* C14: the view never has more than one lookup call outstanding (nor more
\* than one upload call, of which uploadCall holds the only one).
C14_OneCallOutstanding == Len(lookups) <= 1

\* C15 as claimed: once the upload call has resolved, files is empty.
C15_FilesClearedOnSuccess == uploadCall = "resolved" => files = <<>>

\* C15 as amended: once the upload call has resolved, files still holds
\* exactly the submitted files for as long as the view is mounted.
C15_FilesKeptOnSuccess ==
  (uploadCall = "resolved" /\ mounted)
    => (files = formData.documents /\ files # <<>>)

C15_Witness ==
  /\ uploadCall = "resolved"
  /\ mounted
  /\ uploadProgress = 100
  /\ files = <<aPdf, dJpg>>

\* C16: a selection with an empty input leaves files empty, whatever it held,
\* and the error message null.
C16_EmptySelectionClears ==
  [][handleFileChange(<<>>) => (files' = <<>> /\ error' = null)]_vars

C16_Witness ==
  /\ uploadCall = "rejected"
  /\ selectedFiles = <<>>
  /\ files = <<>>
  /\ error = null

\* C17: a failed call is not issued again by the view itself: the catch of
\* the upload leaves no call in flight, an upload call starts only in a submit
\* action, and a lookup call starts only with a change of the route id.
C17_NoAutomaticRetry ==
  /\ [][\A message \in ErrMessages :
          uploadRejected(message) => (uploadCall' = "rejected" /\ ~uploading')]_vars
  /\ [][(uploadCall' = "pending" /\ uploadCall # "pending")
         => (~uploading /\ uploading' /\ ~submitDisabled /\ intervals' \ intervals # {})]_vars
  /\ [][fetchProductDetails => Len(lookups') = Len(lookups) - 1]_vars
  /\ [][Len(lookups') > Len(lookups) => id' # id]_vars

C17_Witness ==
  /\ uploadCall = "rejected"
  /\ ~uploading
  /\ lookups = <<>>
  /\ error = LookupFailedMsg

\* C18: a submit action issues one upload call whose payload is the route id
\* and the files of the Selected File Set at that moment, in order.
C18_RequestIsIdAndFiles ==
  /\ [][(intervals' \ intervals # {})
         => /\ uploadCall # "pending"
            /\ uploadCall' = "pending"
            /\ formData' = [documents |-> files, productId |-> id]]_vars
  /\ [](uploadCall = "pending" => formData.documents = files)

C18_Witness ==
  /\ uploadCall = "pending"
  /\ formData = [documents |-> <<aPdf, dJpg>>, productId |-> <<"1">>]
  /\ selectedFiles = <<aPdf, cPng, dJpg>>

\* C19: in ProductList and ProductDetails loading eventually becomes false,
\* whether the lookup resolves or rejects, and once false it stays false.
C19_LoadingEnds ==
  /\ plLoading ~> ~plLoading
  /\ pdLoading ~> ~pdLoading
  /\ [][~plLoading => ~plLoading']_vars
  /\ [][~pdLoading => ~pdLoading']_vars

C19_Witness ==
  /\ plCall = "rejected"
  /\ ~plLoading
  /\ ~pdLoading
  /\ pdError = "Service not found"
  /\ pdProduct # noProduct
  /\ Len(pdLookups) = 1

\* C20: once every lookup has completed, the view shows the lookup error only
\* if the lookup of the current route id failed, and any product it holds is
\* the Service of the current route id.
C20_ViewReflectsCurrentId ==
  (mounted /\ lookups = <<>>)
    => /\ product # noProduct => StrictEq(product.id, parseInt(id))
       /\ error = LookupFailedMsg => ~getServiceById(id).ok

\* C21: uploadProgress is always one of 0, 10, ..., 100 and never decreases;
\* neither a failed upload nor the start of a resubmission resets it.
C21_ProgressMonotone ==
  /\ [](uploadProgress \in { 10 * k : k \in 0..10 })
  /\ [][uploadProgress' >= uploadProgress]_vars
  /\ [][(handleSubmit \/ \E message \in ErrMessages : uploadRejected(message))
         => uploadProgress' = uploadProgress]_vars

\* A resubmission in flight after a failed upload, progress kept.
C21_Witness ==
  /\ mounted
  /\ uploadCall = "pending"
  /\ Cardinality(intervals) = 2
  /\ uploadProgress = 50

\* C22: once an upload has resolved, uploading stays true: the file input and
\* the submit button stay disabled, no further submission starts and no
\* second upload succeeds.
C22_UploadingStaysAfterSuccess ==
  /\ [](uploadCall = "resolved"
          => /\ uploading
             /\ fileInputDisabled
             /\ submitDisabled
             /\ ~ENABLED handleSubmit)
  /\ [][uploadCall = "resolved" => (uploading' /\ uploadCall' = "resolved")]_vars

C22_Witness ==
  /\ mounted
  /\ uploadCall = "resolved"
  /\ timeout
  /\ uploading
  /\ Len(files) > 0

\* C23: while uploading is true the Selected File Set is left unchanged by
\* every step (ticks, completion of the upload, completion of a lookup), no
\* file selection takes place, and handleSubmit itself leaves files alone.
C23_FilesFrozenWhileUploading ==
  /\ [][uploading => (files' = files /\ selectedFiles' = selectedFiles)]_vars
  /\ [][handleSubmit => files' = files]_vars
  /\ [](uploading => fileInputDisabled)

\* A lookup for a new route id has completed during the submission.
C23_Witness ==
  /\ mounted
  /\ uploading
  /\ uploadCall = "pending"
  /\ uploadProgress >= 10
  /\ id # formData.productId
  /\ lookups = <<>>
  /\ Len(files) > 0

====
